---- MODULE Spec2Model ----
(***************************************************************************)
(* supabase-bridge.js: the browser-side bridge between a backend client    *)
(* (window.supabase), the localStorage cache (LS) and the admin pages.     *)
(*                                                                         *)
(* Every exported function is an async function.  It runs synchronously up *)
(* to its first await, is suspended while the remote query is in flight,   *)
(* and its continuation runs to the next await (or to the end) as one      *)
(* uninterrupted step of the page's single-threaded event loop.  A step of *)
(* the model is one such run; the server processes a query in a step of    *)
(* its own, between the request and the continuation.                      *)
(***************************************************************************)
EXTENDS Integers, Sequences, FiniteSets, TLC

VARIABLES
  sb,            \* window.supabase is set
  storageTight,  \* localStorage is close to its quota and may reject a write
  store,         \* localStorage: the text stored under each cache key
  rows,          \* the server's reservations table
  nextId,        \* the id the server gives the next inserted row
  calls,         \* the calls in flight, by call number
  ncalls,        \* the number of calls made so far
  now,           \* the clock read by Date.now() and nowISO()
  location,      \* location.href
  events,        \* the number of sb:admin-synced events dispatched
  seen,          \* the cached reservations the listeners of the latest event found
  last,          \* history: the call that returned most recently
  hist,          \* history: the successful create/update/delete since the latest sync
  setLog,        \* history: the LS.set calls made by page scripts, per key
  got            \* the outcome of the latest LS.get made by a page script

vars == <<sb, storageTight, store, rows, nextId, calls, ncalls, now, location,
          events, seen, last, hist, setLog, got>>

(***************************************************************************)
(* Bounds of the model.                                                    *)
(***************************************************************************)
MaxCalls == 3
MaxInFlight == 2
MaxTime == 1
MaxRows == 2

(***************************************************************************)
(* JavaScript values.                                                      *)
(*   - a string field holds a string; JSNull stands for null there;        *)
(*   - a numeric field holds a natural number; Number(null) is 0, so a     *)
(*     null numeric column reads as 0;                                     *)
(*   - an id is the number n, the string "n" or the string "tmp_n".        *)
(***************************************************************************)
JSNull == "<null>"

NumId(n) == [t |-> "num", tmp |-> FALSE, n |-> n]
StrId(n) == [t |-> "str", tmp |-> FALSE, n |-> n]
TmpId(n) == [t |-> "str", tmp |-> TRUE, n |-> n]

\* String(x): a number becomes its decimal string, a string is itself.
String(x) == [x EXCEPT !.t = "str"]

\* x || d on a string field: null and '' are falsy.
OrStr(x, d) == IF x = JSNull \/ x = "" THEN d ELSE x

\* x ?? d on a string field: only null is nullish.
NullishStr(x, d) == IF x = JSNull THEN d ELSE x

\* Number(x) || d on a numeric field: 0 (and null, read as 0) is falsy.
NumOr(x, d) == IF x = 0 THEN d ELSE x

\* !!x on a flag the server sends as true, false or null.
Truthy(x) == x = "true"

\* The value a destructured parameter takes: its default when the key is absent.
Default(p, k, d) == IF k \in DOMAIN p THEN p[k] ELSE d

(***************************************************************************)
(* localStorage and the LS helper (lines 14-17).                           *)
(* A stored text is absent (getItem gives null), unparseable, or the JSON  *)
(* text of a value.  A value is a list, null or undefined.                 *)
(***************************************************************************)
CacheKeys == {"categories", "menuItemsVisible", "reservations"}

ListV(s) == [t |-> "list", v |-> s]
NullV == [t |-> "null", v |-> <<>>]
UndefV == [t |-> "undef", v |-> <<>>]

Absent == [kind |-> "absent", val |-> NullV]
Garbage == [kind |-> "garbage", val |-> NullV]
JsonText(v) == [kind |-> "json", val |-> v]

\* JSON.stringify(v) as setItem stores it: undefined has no JSON text, and
\* setItem stores the string "undefined", which JSON.parse rejects.
Stringify(v) == IF v.t = "undef" THEN Garbage ELSE JsonText(v)

\* JSON.parse(localStorage.getItem(k)): getItem gives null for an absent
\* key and JSON.parse(null) is null; an unparseable text throws.
Parse(text) ==
  CASE text.kind = "absent" -> [threw |-> FALSE, val |-> NullV]
    [] text.kind = "garbage" -> [threw |-> TRUE, val |-> NullV]
    [] OTHER -> [threw |-> FALSE, val |-> text.val]

\* LS.get(k, def) on the text stored under k.
\* LS.get without its try/catch: a text JSON.parse rejects makes the call throw.
LSgetNoCatch(text, def) ==
  LET p == Parse(text)
  IN [threw |-> p.threw, val |-> IF p.threw \/ p.val.t = "null" THEN def ELSE p.val]

\* threw tells whether the call itself throws: the try/catch returns def.
LSgetOutcome(text, def) ==
  LET p == Parse(text)
  IN IF p.threw THEN [threw |-> FALSE, val |-> def]
     ELSE [threw |-> FALSE, val |-> IF p.val.t = "null" THEN def ELSE p.val]

LSget(text, def) == LSgetOutcome(text, def).val

\* LS.set(k, v): the text stored under k afterwards.  setItem throws when
\* the storage rejects the write; the catch swallows it.
LSset(text, v, full) == IF full THEN text ELSE Stringify(v)

\* The cached list under key k, as the bridge reads it.
Cached(st, k) == LSget(st[k], ListV(<<>>)).v

(***************************************************************************)
(* The reservations table of the server.  rows is the table in insertion   *)
(* order; ids are numbers the server assigns.                              *)
(***************************************************************************)
RECURSIVE InsertByDate(_, _)
InsertByDate(sorted, r) ==
  IF sorted = <<>> THEN <<r>>
  ELSE IF Head(sorted).date <= r.date
       THEN <<Head(sorted)>> \o InsertByDate(Tail(sorted), r)
       ELSE <<r>> \o sorted

RECURSIVE OrderByDate(_)
\* .order('date', {ascending: true}); rows of equal date keep table order.
OrderByDate(rs) ==
  IF rs = <<>> THEN <<>>
  ELSE InsertByDate(OrderByDate(SubSeq(rs, 1, Len(rs) - 1)), rs[Len(rs)])

\* .select('id,name,phone,date,people,status,notes,table_no,duration_minutes')
SelectColumns(r) ==
  [id |-> r.id, name |-> r.name, phone |-> r.phone, date |-> r.date,
   people |-> r.people, status |-> r.status, notes |-> r.notes,
   table_no |-> r.table_no, duration_minutes |-> r.duration_minutes]

\* The rows the admin sync's query returns.
SelectReservations(rs) ==
  LET o == OrderByDate(rs) IN [i \in 1..Len(o) |-> SelectColumns(o[i])]

\* .eq('id', id): the filter travels as text, so 1 and "1" name the same row.
RowMatches(r, id) == String(r.id) = String(id)

\* The row insert([{name, phone, date, people, kind, table_no,
\* duration_minutes, notes}]) adds; no status is sent, the column is null.
InsertedRow(id, p) ==
  [id |-> NumId(id), name |-> p.name, phone |-> p.phone, date |-> p.iso,
   people |-> p.people, kind |-> Default(p, "kind", "table"),
   table_no |-> Default(p, "table", ""),
   duration_minutes |-> Default(p, "duration_minutes", 90),
   notes |-> Default(p, "notes", ""), status |-> JSNull]

\* .update(fields).eq('id', id): the columns named in fields are replaced.
UpdatedRow(r, f) == [k \in DOMAIN r |-> IF k \in DOMAIN f THEN f[k] ELSE r[k]]

ServerUpdate(rs, id, f) ==
  [i \in 1..Len(rs) |-> IF RowMatches(rs[i], id) THEN UpdatedRow(rs[i], f) ELSE rs[i]]

\* .delete().eq('id', id)
ServerDelete(rs, id) == SelectSeq(rs, LAMBDA r : ~RowMatches(r, id))

MatchingRows(rs, id) == SelectSeq(rs, LAMBDA r : RowMatches(r, id))

(***************************************************************************)
(* The bridge's computations on fetched rows and on the cached list.       *)
(***************************************************************************)
\* syncPublicCatalogToLocal, lines 41-53.
AdaptItem(it) ==
  [id |-> it.id, name |-> it.name, desc |-> NullishStr(it.desc, ""),
   price |-> NumOr(it.price, 0), img |-> OrStr(it.img, ""),
   cat_id |-> NumOr(it.cat_id, 0), available |-> Truthy(it.available),
   fresh |-> Truthy(it.fresh), rating_avg |-> NumOr(it.rating_avg, 0),
   rating_count |-> NumOr(it.rating_count, 0), created_at |-> it.created_at]

AdaptItems(data) == [i \in 1..Len(data) |-> AdaptItem(data[i])]

\* syncAdminDataToLocal, lines 111-122.
AdaptReservation(r, t) ==
  [id |-> r.id, name |-> r.name, phone |-> OrStr(r.phone, ""), date |-> r.date,
   people |-> NumOr(r.people, 1), status |-> OrStr(r.status, "new"),
   notes |-> OrStr(r.notes, ""), table |-> OrStr(r.table_no, ""),
   duration |-> NumOr(r.duration_minutes, 90), updatedAt |-> t]

AdaptReservations(data, t) == [i \in 1..Len(data) |-> AdaptReservation(data[i], t)]

\* createReservationSB, lines 151-157: the optimistic entry.
Optimistic(p, t) ==
  [id |-> TmpId(t), name |-> p.name, phone |-> p.phone, date |-> p.iso,
   people |-> p.people, status |-> "new",
   notes |-> OrStr(Default(p, "notes", ""), ""),
   table |-> OrStr(Default(p, "table", ""), ""),
   duration |-> NumOr(Default(p, "duration_minutes", 90), 90),
   updatedAt |-> t]

\* list.push(optimistic) in place of unshift: the entry goes to the end.
Push(list, e) == list \o <<e>>

\* createReservationSB, line 158: list.unshift(optimistic).
Unshift(list, e) == <<e>> \o list

\* The patch built without the 'key in f' tests: a key absent from fields
\* overwrites the cached field with no value.
PatchedUnconditional(e, f, t) ==
  [id |-> e.id,
   name |-> Default(f, "name", JSNull), phone |-> Default(f, "phone", JSNull),
   date |-> Default(f, "date", 0), people |-> Default(f, "people", 0),
   status |-> Default(f, "status", JSNull), notes |-> Default(f, "notes", JSNull),
   table |-> Default(f, "table_no", JSNull),
   duration |-> Default(f, "duration_minutes", 0), updatedAt |-> t]

\* updateReservationSB, lines 184-194: { ...list[i], ...patch, updatedAt }.
Patched(e, f, t) ==
  [id |-> e.id,
   name |-> IF "name" \in DOMAIN f THEN f.name ELSE e.name,
   phone |-> IF "phone" \in DOMAIN f THEN f.phone ELSE e.phone,
   date |-> IF "date" \in DOMAIN f THEN f.date ELSE e.date,
   people |-> IF "people" \in DOMAIN f THEN f.people ELSE e.people,
   status |-> IF "status" \in DOMAIN f THEN f.status ELSE e.status,
   notes |-> IF "notes" \in DOMAIN f THEN f.notes ELSE e.notes,
   table |-> IF "table_no" \in DOMAIN f THEN f.table_no ELSE e.table,
   duration |-> IF "duration_minutes" \in DOMAIN f THEN f.duration_minutes
                ELSE e.duration,
   updatedAt |-> t]

\* updateReservationSB, line 182: list.findIndex(r => String(r.id) === String(id)),
\* the first index (from 1) that passes, 0 for -1.
MatchIndex(list, id) ==
  IF \E i \in 1..Len(list) : String(list[i].id) = String(id)
  THEN CHOOSE i \in 1..Len(list) :
         /\ String(list[i].id) = String(id)
         /\ \A j \in 1..(i - 1) : String(list[j].id) # String(id)
  ELSE 0

\* The filter with r.id !== id, without the String() coercion.
FilteredStrict(list, id) == SelectSeq(list, LAMBDA r : r.id # id)

\* deleteReservationSB, line 211.
Filtered(list, id) == SelectSeq(list, LAMBDA r : String(r.id) # String(id))

(***************************************************************************)
(* What a continuation can change in the page: the stored texts, the       *)
(* number of sb:admin-synced events dispatched, and the cached             *)
(* reservations a listener of the latest event found when it ran           *)
(* (dispatchEvent runs the listeners before it returns).                   *)
(***************************************************************************)
Page == [store |-> store, events |-> events, seen |-> seen]

\* LS.set(k, v) as a statement.
SetItem(m, k, v, full) == [m EXCEPT !.store[k] = LSset(@, v, full)]

\* fireSyncedEvent(), lines 21-23.
fireSyncedEvent(m) ==
  [m EXCEPT !.events = @ + 1, !.seen = Cached(m.store, "reservations")]

\* syncPublicCatalogToLocal, lines 41-56; data || [] reads a null data as [].
CatalogBody(m, cats, items, full) ==
  SetItem(SetItem(m, "categories", ListV(cats), full),
          "menuItemsVisible", ListV(AdaptItems(items)), full)

\* A sync that keeps the optimistic entries of the cached list in front of
\* the fetched rows.
SyncBodyKeepsOptimistic(m, data, t, full) ==
  LET kept == SelectSeq(Cached(m.store, "reservations"), LAMBDA e : e.id.tmp)
  IN fireSyncedEvent(SetItem(m, "reservations",
                             ListV(kept \o AdaptReservations(data, t)), full))

\* syncAdminDataToLocal, lines 111-127.
SyncBody(m, data, t, full) ==
  fireSyncedEvent(SetItem(m, "reservations", ListV(AdaptReservations(data, t)), full))

\* A create that starts from an empty list instead of reading the cache.
CreateBodyOverwrites(m, p, t, full) ==
  fireSyncedEvent(SetItem(m, "reservations", ListV(<<Optimistic(p, t)>>), full))

\* createReservationSB, lines 150-160.
CreateBody(m, p, t, full) ==
  LET list == Cached(m.store, "reservations")
  IN fireSyncedEvent(SetItem(m, "reservations", ListV(Unshift(list, Optimistic(p, t))), full))

\* An update that dispatches the event outside the if (i >= 0) block.
UpdateBodyAlwaysFires(m, id, f, t, full) ==
  LET list == Cached(m.store, "reservations")
      i == MatchIndex(list, id)
  IN IF i > 0
     THEN fireSyncedEvent(SetItem(m, "reservations",
                                  ListV([list EXCEPT ![i] = Patched(list[i], f, t)]), full))
     ELSE fireSyncedEvent(m)

\* updateReservationSB, lines 181-197.
UpdateBody(m, id, f, t, full) ==
  LET list == Cached(m.store, "reservations")
      i == MatchIndex(list, id)
  IN IF i > 0
     THEN fireSyncedEvent(SetItem(m, "reservations",
                                  ListV([list EXCEPT ![i] = Patched(list[i], f, t)]), full))
     ELSE m

\* deleteReservationSB, lines 210-213.
DeleteBody(m, id, full) ==
  LET list == Cached(m.store, "reservations")
  IN fireSyncedEvent(SetItem(m, "reservations", ListV(Filtered(list, id)), full))

\* The reply's error is never looked at.
FailedNever(resp) == FALSE

\* if (x.error) throw x.error
Failed(resp) == resp.error # "none"

\* Every function ending its no-client path with a bare return.
NoClientReturnUndefined(op) == "undefined"

\* if (!sb) return;  and, in requireAdminOrRedirect, if (!sb) return false;
NoClientReturn(op) == IF op = "requireAdminOrRedirect" THEN "false" ELSE "undefined"

\* isCurrentUserAdminRPC, lines 65-69.
RpcAffirms(resp) == ~resp.threw /\ resp.error = "none" /\ resp.data # <<>>

\* The probe returning true whenever the query did not throw.
ProbeSucceedsIgnoringError(resp) == ~resp.threw

\* probeAdminBySelect, lines 74-77.
ProbeSucceeds(resp) == ~resp.threw /\ resp.error = "none"

(***************************************************************************)
(* Inputs of the calls and replies of the backend.                         *)
(***************************************************************************)
LoginUrls == {"login.html"}

Payloads ==
  { [name |-> "A", phone |-> "1", iso |-> 1, people |-> 2],
    [name |-> "B", phone |-> "2", iso |-> 0, people |-> 4, table |-> "T1",
     notes |-> JSNull, duration_minutes |-> 0] }

FieldSets ==
  { [status |-> "confirmed"],
    [name |-> "Z", phone |-> "9", date |-> 2, people |-> 5, notes |-> "late",
     table_no |-> "T2", duration_minutes |-> 120] }

IdArgs == {StrId(1), TmpId(0)}

\* The error the backend reports when it rejects query q.
QueryError(q) ==
  CASE q = "categories" -> "categories: permission denied"
    [] q = "menu_items" -> "menu_items: permission denied"
    [] q = "rpc" -> "is_admin: function does not exist"
    [] q = "probe" -> "reservations: permission denied for select"
    [] q = "select" -> "reservations: select rejected"
    [] q = "insert" -> "reservations: insert rejected"
    [] q = "update" -> "reservations: update rejected"
    [] q = "delete" -> "reservations: delete rejected"

NoFields == [none |-> TRUE]
NoPayload == [name |-> "", phone |-> "", iso |-> 0, people |-> 0]

Pending == [error |-> "pending", threw |-> FALSE, data |-> <<>>]
Reply(d) == [error |-> "none", threw |-> FALSE, data |-> d]
ErrorReply(q) == [error |-> QueryError(q), threw |-> FALSE, data |-> <<>>]
Thrown == [error |-> "none", threw |-> TRUE, data |-> <<>>]

\* categories(id, name, sort), ordered by sort.
CategoryTables ==
  { <<[id |-> 1, name |-> "Grill", sort |-> 1], [id |-> 2, name |-> "Drinks", sort |-> 2]>> }

\* menu_items rows with available = true, newest first.
ItemTables ==
  { <<[id |-> 7, name |-> "Kebab", desc |-> JSNull, price |-> 0, img |-> JSNull,
       cat_id |-> 0, available |-> "true", fresh |-> "null", rating_avg |-> 4,
       rating_count |-> 0, created_at |-> 3]>> }

CategoryReplies == {Reply(d) : d \in CategoryTables} \cup {ErrorReply("categories")}

ItemReplies == {Reply(d) : d \in ItemTables} \cup {ErrorReply("menu_items")}

\* sb.auth.getSession(): data.session is null or carries the user.
SessionReplies == {Reply(<<>>), Reply(<<"uid">>)}

\* sb.rpc('is_admin', {u: uid}): truthy or falsy data, an error, or a throw.
RpcReplies == {Reply(<<"t">>), Reply(<<>>), ErrorReply("rpc"), Thrown}

\* sb.from('reservations').select('id').limit(1) under the row-level policy.
ProbeReplies == {Reply(<<>>), ErrorReply("probe"), Thrown}

FirstQuery(op) ==
  CASE op = "syncPublicCatalogToLocal" -> "categories"
    [] op = "requireAdminOrRedirect" -> "getSession"
    [] op = "syncAdminDataToLocal" -> "select"
    [] op = "createReservationSB" -> "insert"
    [] op = "updateReservationSB" -> "update"
    [] op = "deleteReservationSB" -> "delete"

NoCall ==
  [cid |-> 0, op |-> "none", ret |-> "none", err |-> "none", log |-> <<>>,
   fired |-> 0, redirected |-> FALSE, alone |-> TRUE,
   id |-> NumId(0), fields |-> NoFields, payload |-> NoPayload, loginUrl |-> "",
   before |-> <<>>, locBefore |-> ""]

InFlight == DOMAIN calls

\* Whether setItem throws at a write: it may when the storage is tight.
WriteOutcomes == IF storageTight THEN {FALSE, TRUE} ELSE {FALSE}

\* The page when the module has loaded: nothing cached, no call made.
InitPage ==
  /\ sb \in BOOLEAN
  /\ store = [k \in CacheKeys |-> Absent]
  /\ rows = <<>>
  /\ nextId = 1
  /\ calls = [c \in {} |-> 0]
  /\ ncalls = 0
  /\ now = 0
  /\ location = "admin.html"
  /\ events = 0
  /\ seen = <<>>
  /\ last = NoCall
  /\ hist = <<>>
  /\ setLog = [k \in CacheKeys |-> [made |-> FALSE, failed |-> FALSE,
                                     everOk |-> FALSE, lastOk |-> NullV]]
  /\ got = [key |-> "none", threw |-> FALSE, def |-> NullV, val |-> NullV]

\* A storage that may reject any write.
Init == storageTight = TRUE /\ InitPage


(***************************************************************************)
(* The environment: time passes.  Whether a client was created in <head>   *)
(* (sb) and whether the storage is so close to its quota that it may       *)
(* reject a write (storageTight) are fixed when the page loads.            *)
(***************************************************************************)
Tick ==
  /\ InFlight # {}
  /\ now < MaxTime
  /\ now' = now + 1
  /\ UNCHANGED <<sb, storageTight, store, rows, nextId, calls, ncalls, location,
                 events, seen, last, hist, setLog, got>>

(***************************************************************************)
(* A call of an exported function, up to its first await (or to its        *)
(* return when no client is configured).                                   *)
(***************************************************************************)
Start(op, id, f, p, url) ==
  /\ ncalls < MaxCalls
  /\ Cardinality(InFlight) < MaxInFlight
  /\ ncalls' = ncalls + 1
  /\ IF ~sb
     THEN /\ last' = [NoCall EXCEPT !.cid = ncalls + 1, !.op = op,
                                    !.ret = NoClientReturn(op), !.id = id,
                                    !.fields = f, !.payload = p, !.loginUrl = url,
                                    !.before = Cached(store, "reservations"),
                                    !.locBefore = location,
                                    !.alone = (InFlight = {})]
          /\ UNCHANGED calls
     ELSE /\ calls' = [c \in InFlight \cup {ncalls + 1} |->
                         IF c \in InFlight THEN [calls[c] EXCEPT !.alone = FALSE]
                         ELSE [op |-> op, pc |-> FirstQuery(op), id |-> id,
                               fields |-> f, payload |-> p, loginUrl |-> url,
                               resp |-> Pending, held |-> <<>>, log |-> <<>>,
                               alone |-> (InFlight = {})]]
          /\ UNCHANGED last
  /\ UNCHANGED <<sb, storageTight, store, rows, nextId, now, location, events, seen,
                 hist, setLog, got>>

syncPublicCatalogToLocal ==
  Start("syncPublicCatalogToLocal", NumId(0), NoFields, NoPayload, "")

requireAdminOrRedirect ==
  \E url \in LoginUrls : Start("requireAdminOrRedirect", NumId(0), NoFields, NoPayload, url)

syncAdminDataToLocal ==
  Start("syncAdminDataToLocal", NumId(0), NoFields, NoPayload, "")

createReservationSB ==
  \E p \in Payloads : Start("createReservationSB", NumId(0), NoFields, p, "")

updateReservationSB ==
  \E id \in IdArgs, f \in FieldSets : Start("updateReservationSB", id, f, NoPayload, "")

deleteReservationSB ==
  \E id \in IdArgs : Start("deleteReservationSB", id, NoFields, NoPayload, "")

(***************************************************************************)
(* The backend runs the reservations query a call is waiting for.  The     *)
(* other queries read nothing the bridge can change; their replies are     *)
(* drawn when the continuation runs.                                       *)
(***************************************************************************)
Awaiting(c, q) == c \in InFlight /\ calls[c].pc = q /\ calls[c].resp = Pending

Answer(c, r) == calls' = [calls EXCEPT ![c].resp = r]

ServeSelect(c) ==
  /\ Awaiting(c, "select")
  /\ \/ Answer(c, Reply(SelectReservations(rows)))
     \/ Answer(c, ErrorReply(calls[c].pc))
  /\ UNCHANGED <<sb, storageTight, store, rows, nextId, ncalls, now, location,
                 events, seen, last, hist, setLog, got>>

ServeInsert(c) ==
  /\ Awaiting(c, "insert")
  /\ \/ /\ Len(rows) < MaxRows
        /\ rows' = Append(rows, InsertedRow(nextId, calls[c].payload))
        /\ nextId' = nextId + 1
        /\ Answer(c, Reply(<<>>))
     \/ /\ Answer(c, ErrorReply(calls[c].pc))
        /\ UNCHANGED <<rows, nextId>>
  /\ UNCHANGED <<sb, storageTight, store, ncalls, now, location,
                 events, seen, last, hist, setLog, got>>

\* .update(fields).eq('id', id).select(...).single(): an error unless exactly
\* one row matches.
ServeUpdate(c) ==
  /\ Awaiting(c, "update")
  /\ \/ /\ Len(MatchingRows(rows, calls[c].id)) = 1
        /\ rows' = ServerUpdate(rows, calls[c].id, calls[c].fields)
        /\ Answer(c, Reply(<<SelectColumns(MatchingRows(rows', calls[c].id)[1])>>))
     \/ /\ Answer(c, ErrorReply(calls[c].pc))
        /\ UNCHANGED rows
  /\ UNCHANGED <<sb, storageTight, store, nextId, ncalls, now, location,
                 events, seen, last, hist, setLog, got>>

ServeDelete(c) ==
  /\ Awaiting(c, "delete")
  /\ \/ /\ rows' = ServerDelete(rows, calls[c].id)
        /\ Answer(c, Reply(<<>>))
     \/ /\ Answer(c, ErrorReply(calls[c].pc))
        /\ UNCHANGED rows
  /\ UNCHANGED <<sb, storageTight, store, nextId, ncalls, now, location,
                 events, seen, last, hist, setLog, got>>

(***************************************************************************)
(* The continuations.                                                      *)
(***************************************************************************)
Replied(c, q) == c \in InFlight /\ calls[c].pc = q /\ calls[c].resp # Pending

\* The successful create/update/delete since the latest successful sync.
History(c, ret) ==
  IF ret = "throw" THEN hist
  ELSE IF calls[c].op = "syncAdminDataToLocal" THEN <<>>
  ELSE IF calls[c].op \in {"createReservationSB", "updateReservationSB",
                           "deleteReservationSB"}
       THEN Append(hist, [op |-> calls[c].op, id |-> calls[c].id,
                          fields |-> calls[c].fields, payload |-> calls[c].payload,
                          t |-> now])
       ELSE hist

\* The call returns ret (or throws err) on the reply r, leaving the page as m.
Finish(c, r, ret, err, m, redirected) ==
  /\ last' = [cid |-> c, op |-> calls[c].op, ret |-> ret, err |-> err,
              log |-> Append(calls[c].log, r), fired |-> m.events - events,
              redirected |-> redirected, alone |-> calls[c].alone,
              id |-> calls[c].id, fields |-> calls[c].fields,
              payload |-> calls[c].payload, loginUrl |-> calls[c].loginUrl,
              before |-> Cached(store, "reservations"), locBefore |-> location]
  /\ hist' = History(c, ret)
  /\ calls' = [d \in InFlight \ {c} |-> calls[d]]
  /\ store' = m.store
  /\ events' = m.events
  /\ seen' = m.seen

\* The call goes on to its next query q, after the reply r.
Await(c, r, q, held) ==
  /\ calls' = [calls EXCEPT ![c].pc = q, ![c].resp = Pending, ![c].held = held,
                            ![c].log = Append(@, r)]
  /\ UNCHANGED <<store, events, seen, last, hist>>

\* syncPublicCatalogToLocal, lines 32-35.
ResumeCategories(c) ==
  /\ Awaiting(c, "categories")
  /\ \E r \in CategoryReplies :
       IF Failed(r)
       THEN Finish(c, r, "throw", r.error, Page, FALSE)
       ELSE Await(c, r, "menu_items", r.data)
  /\ UNCHANGED <<sb, storageTight, rows, nextId, ncalls, now, location, setLog, got>>

\* syncPublicCatalogToLocal, lines 39-57.
ResumeItems(c) ==
  /\ Awaiting(c, "menu_items")
  /\ \E r \in ItemReplies :
       IF Failed(r)
       THEN Finish(c, r, "throw", r.error, Page, FALSE)
       ELSE \E full \in WriteOutcomes : Finish(c, r, "data", "none",
                   CatalogBody(Page, calls[c].held, r.data, full), FALSE)
  /\ UNCHANGED <<sb, storageTight, rows, nextId, ncalls, now, location, setLog, got>>

\* requireAdminOrRedirect, lines 88-92.
ResumeSession(c) ==
  /\ Awaiting(c, "getSession")
  /\ \E r \in SessionReplies :
       IF r.data = <<>>
       THEN /\ location' = calls[c].loginUrl
            /\ Finish(c, r, "false", "none", Page, TRUE)
       ELSE /\ Await(c, r, "rpc", r.data)
            /\ UNCHANGED location
  /\ UNCHANGED <<sb, storageTight, rows, nextId, ncalls, now, setLog, got>>

\* requireAdminOrRedirect, line 92, after isCurrentUserAdminRPC resolved.
ResumeRpc(c) ==
  /\ Awaiting(c, "rpc")
  /\ \E r \in RpcReplies :
       IF RpcAffirms(r)
       THEN Finish(c, r, "true", "none", Page, FALSE)
       ELSE Await(c, r, "probe", calls[c].held)
  /\ UNCHANGED <<sb, storageTight, rows, nextId, ncalls, now, location, setLog, got>>

\* requireAdminOrRedirect, lines 92-94, after probeAdminBySelect resolved.
ResumeProbe(c) ==
  /\ Awaiting(c, "probe")
  /\ \E r \in ProbeReplies :
       IF ProbeSucceeds(r)
       THEN /\ Finish(c, r, "true", "none", Page, FALSE)
            /\ UNCHANGED location
       ELSE /\ location' = calls[c].loginUrl
            /\ Finish(c, r, "false", "none", Page, TRUE)
  /\ UNCHANGED <<sb, storageTight, rows, nextId, ncalls, now, setLog, got>>

\* syncAdminDataToLocal, lines 109-128.
ResumeSelect(c) ==
  /\ Replied(c, "select")
  /\ \E full \in WriteOutcomes : IF Failed(calls[c].resp)
     THEN Finish(c, calls[c].resp, "throw", calls[c].resp.error, Page, FALSE)
     ELSE Finish(c, calls[c].resp, "data", "none", SyncBody(Page, calls[c].resp.data, now, full), FALSE)
  /\ UNCHANGED <<sb, storageTight, rows, nextId, ncalls, now, location, setLog, got>>

\* createReservationSB, lines 147-161.
ResumeInsert(c) ==
  /\ Replied(c, "insert")
  /\ \E full \in WriteOutcomes : IF Failed(calls[c].resp)
     THEN Finish(c, calls[c].resp, "throw", calls[c].resp.error, Page, FALSE)
     ELSE Finish(c, calls[c].resp, "true", "none", CreateBody(Page, calls[c].payload, now, full), FALSE)
  /\ UNCHANGED <<sb, storageTight, rows, nextId, ncalls, now, location, setLog, got>>

\* updateReservationSB, lines 178-198.
ResumeUpdate(c) ==
  /\ Replied(c, "update")
  /\ \E full \in WriteOutcomes : IF Failed(calls[c].resp)
     THEN Finish(c, calls[c].resp, "throw", calls[c].resp.error, Page, FALSE)
     ELSE Finish(c, calls[c].resp, "data", "none",
                 UpdateBody(Page, calls[c].id, calls[c].fields, now, full), FALSE)
  /\ UNCHANGED <<sb, storageTight, rows, nextId, ncalls, now, location, setLog, got>>

\* deleteReservationSB, lines 208-214.
ResumeDelete(c) ==
  /\ Replied(c, "delete")
  /\ \E full \in WriteOutcomes : IF Failed(calls[c].resp)
     THEN Finish(c, calls[c].resp, "throw", calls[c].resp.error, Page, FALSE)
     ELSE Finish(c, calls[c].resp, "true", "none", DeleteBody(Page, calls[c].id, full), FALSE)
  /\ UNCHANGED <<sb, storageTight, rows, nextId, ncalls, now, location, setLog, got>>

Cids == 1..MaxCalls

Serve ==
  \E c \in Cids :
    ServeSelect(c) \/ ServeInsert(c) \/ ServeUpdate(c) \/ ServeDelete(c)

Resume ==
  \E c \in Cids :
    \/ ResumeCategories(c) \/ ResumeItems(c) \/ ResumeSession(c) \/ ResumeRpc(c)
    \/ ResumeProbe(c) \/ ResumeSelect(c) \/ ResumeInsert(c) \/ ResumeUpdate(c)
    \/ ResumeDelete(c)

CallAny ==
  \/ syncPublicCatalogToLocal \/ requireAdminOrRedirect \/ syncAdminDataToLocal
  \/ createReservationSB \/ updateReservationSB \/ deleteReservationSB

Next == Tick \/ CallAny \/ Serve \/ Resume

Spec == Init /\ [][Next]_vars

\* The same page on a storage with room for every write.
InitStorageOk == storageTight = FALSE /\ InitPage

SpecStorageOk == InitStorageOk /\ [][Next]_vars


(***************************************************************************)
(* The LS helper on its own: a page script calls window.LS.get and         *)
(* window.LS.set, and other scripts write raw text to the same keys.       *)
(* setLog records, per key, whether a set was made, whether the most       *)
(* recent one was rejected, and whether one was ever accepted.             *)
(***************************************************************************)
LSValues == {ListV(<<>>), ListV(<<"x">>), NullV, UndefV}

LSDefaults == {ListV(<<>>), ListV(<<"default">>)}

LSSetCall ==
  \E k \in CacheKeys, v \in LSValues, full \in WriteOutcomes :
    /\ store' = [store EXCEPT ![k] = LSset(@, v, full)]
    /\ setLog' = [setLog EXCEPT ![k] = [made |-> TRUE, failed |-> full,
                                        everOk |-> @.everOk \/ ~full,
                                        lastOk |-> IF full THEN @.lastOk ELSE v]]
    /\ UNCHANGED <<sb, storageTight, rows, nextId, calls, ncalls, now, location,
                   events, seen, last, hist, got>>

LSGetCall ==
  \E k \in CacheKeys, d \in LSDefaults :
    /\ got' = [key |-> k, threw |-> LSgetOutcome(store[k], d).threw, def |-> d,
               val |-> LSgetOutcome(store[k], d).val]
    /\ UNCHANGED <<sb, storageTight, store, rows, nextId, calls, ncalls, now,
                   location, events, seen, last, hist, setLog>>

\* localStorage.setItem(k, text) by another script, with a text that is not JSON.
RawWrite ==
  \E k \in CacheKeys :
    /\ store' = [store EXCEPT ![k] = Garbage]
    /\ UNCHANGED <<sb, storageTight, rows, nextId, calls, ncalls, now, location,
                   events, seen, last, hist, setLog, got>>

NextLS == LSSetCall \/ LSGetCall \/ RawWrite

SpecLS == Init /\ [][NextLS]_vars

(***************************************************************************)
(* Properties.  last describes the call that returned most recently; the   *)
(* store changes only in the step in which a call returns, so last.before  *)
(* and the current store are the cache before and after that call's final  *)
(* continuation.                                                           *)
(***************************************************************************)
Cache == Cached(store, "reservations")

Returned(op) == last.op = op /\ last.log # <<>>

SameId(a, b) == String(a) = String(b)

FinalReply == last.log[Len(last.log)]

\* C1: with a client configured, requireAdminOrRedirect returns true or
\* false, and true exactly when it did not redirect.  Without a session it
\* redirects to loginUrl, returns false and makes neither admin check; when
\* the is_admin check returns truthy data without error it returns true
\* without running the probe; when that check errors, throws or returns
\* falsy data it runs the probe, returns true if the probe succeeds, and
\* otherwise redirects to loginUrl and returns false.
C1_GuardOutcomes ==
  Returned("requireAdminOrRedirect") =>
    LET n == Len(last.log)
        session == last.log[1].data # <<>>
        rpc == last.log[2]
        probe == last.log[3]
        stays == last.ret = "true" /\ ~last.redirected /\ location = last.locBefore
        leaves == last.ret = "false" /\ last.redirected /\ location = last.loginUrl
    IN /\ (last.ret = "true") <=> ~last.redirected
       /\ IF ~session THEN n = 1 /\ leaves
          ELSE IF rpc.error = "none" /\ ~rpc.threw /\ rpc.data # <<>>
               THEN n = 2 /\ stays
               ELSE /\ n = 3
                    /\ IF probe.error = "none" /\ ~probe.threw THEN stays ELSE leaves

\* The is_admin check reported an error and the probe let the user in.
C1_Witness ==
  /\ Returned("requireAdminOrRedirect")
  /\ Len(last.log) = 3
  /\ last.log[2].error # "none"
  /\ last.ret = "true"
  /\ location = "admin.html"

NothingDone ==
  /\ last.log = <<>>
  /\ last.fired = 0
  /\ ~last.redirected
  /\ last.ret # "throw"
  /\ InFlight = {}
  /\ store = [k \in CacheKeys |-> Absent]
  /\ events = 0
  /\ location = "admin.html"
  /\ rows = <<>>

FiveOps ==
  {"syncPublicCatalogToLocal", "syncAdminDataToLocal", "createReservationSB",
   "updateReservationSB", "deleteReservationSB"}

C3_Throws ==
  (last.op \in FiveOps /\ \E i \in 1..Len(last.log) : last.log[i].error # "none") =>
    /\ last.ret = "throw"
    /\ last.err = FinalReply.error
    /\ \A i \in 1..(Len(last.log) - 1) : last.log[i].error = "none"

\* C3: when a query of syncPublicCatalogToLocal, syncAdminDataToLocal,
\* createReservationSB, updateReservationSB or deleteReservationSB reports
\* an error, the call throws that error, and no step of a call that throws
\* changes a cache key: the store changes only in the step in which a call
\* returns normally, so categories is never written without menuItemsVisible.
C3_ErrorsLeaveCache ==
  /\ []C3_Throws
  /\ [][(last'.cid # last.cid /\ last'.ret = "throw") => store' = store]_vars
  /\ [][store' # store => (last'.cid # last.cid /\ last'.ret \in {"true", "data"})]_vars

\* The categories fetch succeeded and the menu-items fetch failed.
C3_Witness ==
  /\ last.op = "syncPublicCatalogToLocal"
  /\ Len(last.log) = 2
  /\ last.ret = "throw"
  /\ last.err = QueryError("menu_items")
  /\ store.categories = Absent

RECURSIVE Without(_, _)
Without(list, id) ==
  IF list = <<>> THEN <<>>
  ELSE IF SameId(Head(list).id, id) THEN Without(Tail(list), id)
       ELSE <<Head(list)>> \o Without(Tail(list), id)

CacheField(k) ==
  CASE k = "table_no" -> "table"
    [] k = "duration_minutes" -> "duration"
    [] OTHER -> k

PatchedFields(f) == {CacheField(k) : k \in DOMAIN f} \cup {"updatedAt"}

FirstMatch(list, id) ==
  IF \E i \in 1..Len(list) : SameId(list[i].id, id)
  THEN CHOOSE i \in 1..Len(list) :
         SameId(list[i].id, id) /\ \A j \in 1..(i - 1) : ~SameId(list[j].id, id)
  ELSE 0

\* C5: after a successful updateReservationSB(id, fields) the cached list
\* has the same length and order; every entry but the first one matching id
\* is unchanged; that entry differs from its previous value only in
\* updatedAt and in the cache fields of the keys present in fields; with no
\* match the list is unchanged.
C5_Update ==
  (Returned("updateReservationSB") /\ last.ret = "data") =>
    LET i == FirstMatch(last.before, last.id)
    IN /\ Len(Cache) = Len(last.before)
       /\ \A j \in 1..Len(Cache) : j # i => Cache[j] = last.before[j]
       /\ i > 0 =>
            /\ DOMAIN Cache[i] = DOMAIN last.before[i]
            /\ \A k \in DOMAIN Cache[i] \ PatchedFields(last.fields) :
                 Cache[i][k] = last.before[i][k]

\* {status: "confirmed"} was applied to a matching entry: the status and
\* nothing but the status and updatedAt changed, next to another entry.
C5_Witness ==
  /\ Returned("updateReservationSB") /\ last.ret = "data"
  /\ last.fields = [status |-> "confirmed"]
  /\ FirstMatch(last.before, last.id) > 0
  /\ Cache[FirstMatch(last.before, last.id)].status = "confirmed"
  /\ last.before[FirstMatch(last.before, last.id)].status = "new"

FourOps ==
  {"syncAdminDataToLocal", "createReservationSB", "updateReservationSB",
   "deleteReservationSB"}

Matched == \E i \in 1..Len(last.before) : SameId(last.before[i].id, last.id)

GetReturns(k, d) == LSgetOutcome(store[k], d)

\* C8 as amended: LS.get(k, d) never throws.  It returns d when no set on
\* k was ever accepted by the storage and when the stored text is absent,
\* not parseable, or the JSON null.  A rejected set leaves the stored text
\* as it was: while the text of the latest accepted set is in place, get
\* returns that value, also right after a rejected set.
C8_Get ==
  /\ ~got.threw
  /\ \A k \in CacheKeys, d \in LSDefaults :
       /\ ~GetReturns(k, d).threw
       /\ (~setLog[k].everOk \/ store[k].kind # "json" \/ store[k].val.t = "null")
            => GetReturns(k, d).val = d
       /\ (setLog[k].everOk /\ store[k].kind = "json")
            => /\ store[k].val = setLog[k].lastOk
               /\ setLog[k].lastOk.t = "list" => GetReturns(k, d).val = setLog[k].lastOk

\* C8 as stated: get returns d whenever the most recent set on k failed, no
\* set on k was made, or the stored text is not parseable.
C8_Original ==
  \A k \in CacheKeys, d \in LSDefaults :
    (~setLog[k].made \/ setLog[k].failed \/ store[k].kind = "garbage")
      => GetReturns(k, d) = [threw |-> FALSE, val |-> d]

\* A get after an accepted set of ["x"] and a rejected set returned ["x"].
C8_Witness ==
  /\ got.key \in CacheKeys
  /\ setLog[got.key].failed /\ setLog[got.key].everOk
  /\ got.val = ListV(<<"x">>)
  /\ got.def # got.val
  /\ GetReturns(got.key, got.def).val = got.val

C9_StaleAfterRace ==
  /\ Returned("syncAdminDataToLocal") /\ last.ret = "data"
  /\ ~last.alone /\ InFlight = {}
  /\ Len(rows) = 1 /\ Cache = <<>>
  /\ events = 2

C9_NeverStale == ~C9_StaleAfterRace

Touches(h, id) ==
  h.op \in {"updateReservationSB", "deleteReservationSB"} /\ SameId(h.id, id)

Creates(h, id) == h.op = "createReservationSB" /\ SameId(TmpId(h.t), id)

====
